---- MODULE Spec2Model ----
(***************************************************************************)
(* A model of the ConoHa VPS v3 SDK core: the client (token manager,       *)
(* endpoint resolver and service properties, conoha/client.py), the        *)
(* request executor (conoha/base.py) and resource methods of the compute   *)
(* and volume modules (conoha/compute.py, conoha/volume.py).               *)
(*                                                                         *)
(* Python values are represented as follows.                               *)
(*   - an optional value is a sequence: None is <<>>, a value x is <<x>>;  *)
(*   - a dict is a function whose DOMAIN is the set of its keys;           *)
(*   - a URL string is a sequence of string chunks, a "/" at the end of    *)
(*     an environment value being the chunk "/", and a template's          *)
(*     placeholder being the chunk "{region}";                             *)
(*   - a raised exception is the name of its class, "" when none.          *)
(***************************************************************************)
EXTENDS Integers, Sequences, FiniteSets, TLC

VARIABLES
    phase,              \* "constructing" (inside __init__), "ready", "failed"
    region,             \* self.region
    token,              \* self._token
    token_expires_at,   \* self._token_expires_at
    tenant_id,          \* self._tenant_id
    user_id,            \* self._user_id
    username,           \* self._username
    password,           \* self._password
    tenant_name,        \* self._tenant_name
    user_endpoints,     \* self._user_endpoints
    env_endpoints,      \* self._env_endpoints
    catalog_endpoints,  \* self._catalog_endpoints
    environ,            \* os.environ of the process
    caller_endpoints,   \* the dict object the caller passed as `endpoints`
    now,                \* time.time()
    ticks,              \* number of clock advances so far
    pc,                 \* "idle", or "inflight" while _request waits for HTTP
    call,               \* record of the most recent call on the client
    services,           \* self._identity .. self._object_storage, by property
    objects,            \* number of service objects constructed so far
    threads             \* per thread: its position in a read of client.token

vars == <<phase, region, token, token_expires_at, tenant_id, user_id,
          username, password, tenant_name, user_endpoints, env_endpoints,
          catalog_endpoints, environ, caller_endpoints, now, ticks, pc, call,
          services, objects, threads>>

(***************************************************************************)
(* Python values                                                           *)
(***************************************************************************)
None == <<>>

Some(x) == <<x>>

Get(o) == o[1]

\* truth value of an optional string: None and "" are false
Truthy(o) == o # None /\ Get(o) # ""

EmptyDict == [k \in {} |-> <<>>]

\* d[k] = v on a dict
DictSet(d, k, v) == [x \in (DOMAIN d) \cup {k} |-> IF x = k THEN v ELSE d[x]]

(***************************************************************************)
(* Bounds                                                                  *)
(***************************************************************************)
MaxTicks == 2

(***************************************************************************)
(* conoha/config.py                                                        *)
(***************************************************************************)
DEFAULT_REGION == "c3j1"

ServiceNames == {"identity", "compute", "block_storage", "image", "network",
                 "load_balancer", "dns", "object_storage"}

BASE_URLS ==
    [s \in ServiceNames |->
        CASE s = "identity"       -> <<"https://identity.", "{region}", ".conoha.io">>
          [] s = "compute"        -> <<"https://compute.", "{region}", ".conoha.io">>
          [] s = "block_storage"  -> <<"https://block-storage.", "{region}", ".conoha.io">>
          [] s = "image"          -> <<"https://image-service.", "{region}", ".conoha.io">>
          [] s = "network"        -> <<"https://networking.", "{region}", ".conoha.io">>
          [] s = "load_balancer"  -> <<"https://lbaas.", "{region}", ".conoha.io">>
          [] s = "dns"            -> <<"https://dns-service.", "{region}", ".conoha.io">>
          [] s = "object_storage" -> <<"https://object-storage.", "{region}", ".conoha.io">>]

EnvVarNames == {"CONOHA_ENDPOINT_IDENTITY", "CONOHA_ENDPOINT_COMPUTE",
                "CONOHA_ENDPOINT_BLOCK_STORAGE", "CONOHA_ENDPOINT_IMAGE",
                "CONOHA_ENDPOINT_NETWORK", "CONOHA_ENDPOINT_LOAD_BALANCER",
                "CONOHA_ENDPOINT_DNS", "CONOHA_ENDPOINT_OBJECT_STORAGE"}

ENDPOINT_ENV_MAP ==
    [v \in EnvVarNames |->
        CASE v = "CONOHA_ENDPOINT_IDENTITY"       -> "identity"
          [] v = "CONOHA_ENDPOINT_COMPUTE"        -> "compute"
          [] v = "CONOHA_ENDPOINT_BLOCK_STORAGE"  -> "block_storage"
          [] v = "CONOHA_ENDPOINT_IMAGE"          -> "image"
          [] v = "CONOHA_ENDPOINT_NETWORK"        -> "network"
          [] v = "CONOHA_ENDPOINT_LOAD_BALANCER"  -> "load_balancer"
          [] v = "CONOHA_ENDPOINT_DNS"            -> "dns"
          [] v = "CONOHA_ENDPOINT_OBJECT_STORAGE" -> "object_storage"]

(***************************************************************************)
(* conoha/client.py: constants of authenticate()                           *)
(***************************************************************************)
ExpiryBuffer == 300

AssumedValidity == 86400

IdentitySuccess == 201

(***************************************************************************)
(* conoha/client.py: endpoint resolver                                     *)
(***************************************************************************)
\* str.rstrip("/")
RECURSIVE RStrip(_)
RStrip(s) ==
    IF Len(s) = 0 THEN s
    ELSE IF s[Len(s)] = "/" THEN RStrip(SubSeq(s, 1, Len(s) - 1))
    ELSE s

\* template.format(region=...)
Format(template, r) ==
    [i \in DOMAIN template |-> IF template[i] = "{region}" THEN r ELSE template[i]]

\* the environment variable whose override names service s
EnvVarOf(s) == CHOOSE v \in DOMAIN ENDPOINT_ENV_MAP : ENDPOINT_ENV_MAP[v] = s

\* ConoHaClient._load_env_endpoints, reading the environment env
LoadEnvEndpoints(env) ==
    LET present == {v \in DOMAIN ENDPOINT_ENV_MAP :
                        v \in DOMAIN env /\ Len(env[v]) > 0}
    IN  [s \in {ENDPOINT_ENV_MAP[v] : v \in present} |-> RStrip(env[EnvVarOf(s)])]

\* dict(endpoints) if endpoints else {}
CopyEndpoints(arg) ==
    IF arg = None \/ DOMAIN Get(arg) = {} THEN EmptyDict ELSE Get(arg)

\* GetEndpoint, were the catalog consulted before the two override maps
GetEndpointCatalogFirst(ue, ee, ce, r, service_name) ==
    IF service_name \in DOMAIN ce
        THEN [raised |-> "", url |-> ce[service_name]]
    ELSE IF service_name \in DOMAIN ue
        THEN [raised |-> "", url |-> ue[service_name]]
    ELSE IF service_name \in DOMAIN ee
        THEN [raised |-> "", url |-> ee[service_name]]
    ELSE IF service_name \in DOMAIN BASE_URLS /\ Len(BASE_URLS[service_name]) > 0
        THEN [raised |-> "", url |-> Format(BASE_URLS[service_name], r)]
    ELSE [raised |-> "ValueError", url |-> <<>>]

\* GetEndpoint, were the environment read at every call
GetEndpointReadingEnviron(ue, ee, ce, r, service_name) ==
    IF service_name \in DOMAIN ue
        THEN [raised |-> "", url |-> ue[service_name]]
    ELSE IF service_name \in DOMAIN LoadEnvEndpoints(environ)
        THEN [raised |-> "", url |-> LoadEnvEndpoints(environ)[service_name]]
    ELSE IF service_name \in DOMAIN ce
        THEN [raised |-> "", url |-> ce[service_name]]
    ELSE IF service_name \in DOMAIN BASE_URLS /\ Len(BASE_URLS[service_name]) > 0
        THEN [raised |-> "", url |-> Format(BASE_URLS[service_name], r)]
    ELSE [raised |-> "ValueError", url |-> <<>>]

\* ConoHaClient._get_endpoint over the three maps ue (user), ee (environment),
\* ce (catalog) and the region r; raised is "ValueError" for an unknown name
GetEndpoint(ue, ee, ce, r, service_name) ==
    IF service_name \in DOMAIN ue
        THEN [raised |-> "", url |-> ue[service_name]]
    ELSE IF service_name \in DOMAIN ee
        THEN [raised |-> "", url |-> ee[service_name]]
    ELSE IF service_name \in DOMAIN ce
        THEN [raised |-> "", url |-> ce[service_name]]
    ELSE IF service_name \in DOMAIN BASE_URLS /\ Len(BASE_URLS[service_name]) > 0
        THEN [raised |-> "", url |-> Format(BASE_URLS[service_name], r)]
    ELSE [raised |-> "ValueError", url |-> <<>>]

(***************************************************************************)
(* conoha/client.py: token manager                                         *)
(***************************************************************************)
CatalogTypes == {"identity", "compute", "volumev3", "image", "network",
                 "load-balancer", "dns", "object-store"}

\* service_map of _parse_catalog
service_map ==
    [t \in CatalogTypes |->
        CASE t = "identity"      -> "identity"
          [] t = "compute"       -> "compute"
          [] t = "volumev3"      -> "block_storage"
          [] t = "image"         -> "image"
          [] t = "network"       -> "network"
          [] t = "load-balancer" -> "load_balancer"
          [] t = "dns"           -> "dns"
          [] t = "object-store"  -> "object_storage"]

\* PublicIndexes, were the interface tag not looked at
PublicIndexesAnyInterface(endpoints) == DOMAIN endpoints

\* positions of the endpoints tagged "public" in an entry's endpoint list
PublicIndexes(endpoints) ==
    {i \in DOMAIN endpoints : endpoints[i].interface = "public"}

MinOf(S) == CHOOSE x \in S : \A y \in S : x <= y

\* ConoHaClient._parse_catalog: the new value of self._catalog_endpoints when
\* it held ce and the response carried catalog
RECURSIVE ParseCatalog(_, _)
ParseCatalog(ce, catalog) ==
    IF Len(catalog) = 0 THEN ce
    ELSE LET entry == Head(catalog)
             pub   == PublicIndexes(entry.endpoints)
             next  == IF entry.type \in DOMAIN service_map /\ pub # {}
                        THEN DictSet(ce, service_map[entry.type],
                                     entry.endpoints[MinOf(pub)].url)
                        ELSE ce
         IN  ParseCatalog(next, Tail(catalog))

\* IsTokenExpired, were the comparison strict
IsTokenExpiredStrict(expires_at, t) ==
    IF expires_at = None THEN FALSE ELSE t > Get(expires_at)

\* IsTokenExpired, were a token with no stored expiry taken as expired
IsTokenExpiredWithoutExpiry(expires_at, t) ==
    IF expires_at = None THEN TRUE ELSE t >= Get(expires_at)

\* _is_token_expired at time t with stored expiry expires_at
IsTokenExpired(expires_at, t) ==
    IF expires_at = None THEN FALSE ELSE t >= Get(expires_at)

\* HasPasswordCredentials, were it to look at the password only
HasPasswordOnly(uname, uid, pw) == Truthy(pw)

\* (self._username or self._user_id) and self._password
HasPasswordCredentials(uname, uid, pw) ==
    (Truthy(uname) \/ Truthy(uid)) /\ Truthy(pw)

\* An ISO-8601 timestamp string of the identity API is the record of its
\* wall-clock reading, in seconds, and its zone designator: "Z" or a numeric
\* offset such as "+09:00".
IsoString(wall, tz) == [wall |-> wall, tz |-> tz]

\* expires_at_str.replace("Z", "+00:00")
ReplaceZ(s) == [s EXCEPT !.tz = IF @ = "Z" THEN "+00:00" ELSE @]

\* the seconds east of UTC a numeric offset denotes
UtcOffset(tz) ==
    CASE tz = "+00:00" -> 0
      [] tz = "+09:00" -> 32400

\* datetime.fromisoformat(s): an aware datetime
FromIsoFormat(s) == [wall |-> s.wall, utcoffset |-> UtcOffset(s.tz)]

\* datetime.timestamp() of an aware datetime
Timestamp(dt) == dt.wall - dt.utcoffset

\* StoredExpiry, were the assumed validity taken without the safety buffer
StoredExpiryFullValidity(expires_at_str, t) ==
    IF expires_at_str # None
    THEN Some(Timestamp(FromIsoFormat(ReplaceZ(Get(expires_at_str)))) - ExpiryBuffer)
    ELSE Some(t + AssumedValidity)

\* the value authenticate() stores in self._token_expires_at at time t when
\* the token metadata carries expires_at_str (None: no "expires_at")
StoredExpiry(expires_at_str, t) ==
    IF expires_at_str # None
    THEN Some(Timestamp(FromIsoFormat(ReplaceZ(Get(expires_at_str)))) - ExpiryBuffer)
    ELSE Some(t + AssumedValidity - ExpiryBuffer)

\* AuthRejected, were every 2xx status taken for a success
AuthRejectedOutside2xx(status) == status < 200 \/ status >= 300

\* resp.status_code != 201: the identity service did not create a token
AuthRejected(status) == status # IdentitySuccess

\* "token" in resp.json(): the body carries the token metadata; a response
\* is a record, and one whose body lacks the metadata lacks its fields
HasTokenMetadata(resp) == "expires_at" \in DOMAIN resp

\* the fields authenticate() may assign
AuthFields ==
    [token |-> token, token_expires_at |-> token_expires_at,
     tenant_id |-> tenant_id, user_id |-> user_id,
     catalog_endpoints |-> catalog_endpoints]

\* AuthBody, were the user named whenever a username is configured
AuthBodyPreferringName(st) ==
    LET user_block == IF Truthy(username)
                      THEN [name |-> username, password |-> password]
                      ELSE [id |-> st.user_id, password |-> password]
        identity == [methods |-> <<"password">>,
                     password |-> [user |-> user_block]]
    IN  IF Truthy(st.tenant_id)
        THEN [auth |-> [identity |-> identity,
                        scope |-> [project |-> [id |-> st.tenant_id]]]]
        ELSE IF Truthy(tenant_name)
        THEN [auth |-> [identity |-> identity,
                        scope |-> [project |-> [name |-> tenant_name]]]]
        ELSE [auth |-> [identity |-> identity]]

\* the JSON body authenticate() posts, built from the fields st: a dict is a
\* record, and a field that holds None is sent as it is
AuthBody(st) ==
    LET user_block == IF Truthy(st.user_id)
                      THEN [id |-> st.user_id, password |-> password]
                      ELSE [name |-> username, password |-> password]
        identity == [methods |-> <<"password">>,
                     password |-> [user |-> user_block]]
    IN  IF Truthy(st.tenant_id)
        THEN [auth |-> [identity |-> identity,
                        scope |-> [project |-> [id |-> st.tenant_id]]]]
        ELSE IF Truthy(tenant_name)
        THEN [auth |-> [identity |-> identity,
                        scope |-> [project |-> [name |-> tenant_name]]]]
        ELSE [auth |-> [identity |-> identity]]

\* IdentityUrl, were the region's default URL used at every authentication
IdentityUrlFromTemplate(ce) == Format(BASE_URLS["identity"], region)

\* identity_url of authenticate() (line 152) with catalog entries ce
IdentityUrl(ce) ==
    GetEndpoint(user_endpoints, env_endpoints, ce, region, "identity").url

\* Authenticate, were a rejected authentication to drop the stored ids
AuthenticateDroppingIds(st, resp, t) ==
    LET identity_url == IdentityUrl(st.catalog_endpoints)
        url == identity_url \o <<"/v3/auth/tokens">>
    IN  IF AuthRejected(resp.status)
        THEN [raised |-> "AuthenticationError",
              st |-> [st EXCEPT !.tenant_id = None, !.user_id = None],
              returned |-> None,
              url |-> url, body |-> AuthBody(st)]
        ELSE [raised |-> "",
              st |-> [token |-> resp.subject_token,
                      token_expires_at |-> StoredExpiry(resp.expires_at, t),
                      tenant_id |-> IF resp.project # None THEN resp.project
                                    ELSE st.tenant_id,
                      user_id |-> IF resp.user # None THEN resp.user
                                  ELSE st.user_id,
                      catalog_endpoints |->
                          ParseCatalog(st.catalog_endpoints, resp.catalog)],
              returned |-> resp.subject_token,
              url |-> url, body |-> AuthBody(st)]

\* Authenticate, were a rejected authentication to discard the stored token
AuthenticateClearingToken(st, resp, t) ==
    LET identity_url == IdentityUrl(st.catalog_endpoints)
        url == identity_url \o <<"/v3/auth/tokens">>
    IN  IF AuthRejected(resp.status)
        THEN [raised |-> "AuthenticationError",
              st |-> [st EXCEPT !.token = None, !.token_expires_at = None],
              returned |-> None,
              url |-> url, body |-> AuthBody(st)]
        ELSE IF ~HasTokenMetadata(resp)
        THEN [raised |-> "KeyError",
              st |-> [st EXCEPT !.token = resp.subject_token],
              returned |-> None, url |-> url, body |-> AuthBody(st)]
        ELSE [raised |-> "",
              st |-> [token |-> resp.subject_token,
                      token_expires_at |-> StoredExpiry(resp.expires_at, t),
                      tenant_id |-> IF resp.project # None THEN resp.project
                                    ELSE st.tenant_id,
                      user_id |-> IF resp.user # None THEN resp.user
                                  ELSE st.user_id,
                      catalog_endpoints |->
                          ParseCatalog(st.catalog_endpoints, resp.catalog)],
              returned |-> resp.subject_token,
              url |-> url, body |-> AuthBody(st)]

\* ConoHaClient.authenticate() at time t on fields st, the identity service
\* answering resp; url and body are the request it posts
Authenticate(st, resp, t) ==
    LET identity_url == IdentityUrl(st.catalog_endpoints)
        url == identity_url \o <<"/v3/auth/tokens">>
    IN  IF AuthRejected(resp.status)
        THEN [raised |-> "AuthenticationError", st |-> st, returned |-> None,
              url |-> url, body |-> AuthBody(st)]
        ELSE IF ~HasTokenMetadata(resp)
        THEN [raised |-> "KeyError",
              st |-> [st EXCEPT !.token = resp.subject_token],
              returned |-> None, url |-> url, body |-> AuthBody(st)]
        ELSE [raised |-> "",
              st |-> [token |-> resp.subject_token,
                      token_expires_at |-> StoredExpiry(resp.expires_at, t),
                      tenant_id |-> IF resp.project # None THEN resp.project
                                    ELSE st.tenant_id,
                      user_id |-> IF resp.user # None THEN resp.user
                                  ELSE st.user_id,
                      catalog_endpoints |->
                          ParseCatalog(st.catalog_endpoints, resp.catalog)],
              returned |-> resp.subject_token,
              url |-> url, body |-> AuthBody(st)]

\* the ConoHaClient.token property at time t; resp is the identity service's
\* answer should the property authenticate
TokenProperty(st, resp, t) ==
    IF Truthy(st.token) /\ ~IsTokenExpired(st.token_expires_at, t)
    THEN [raised |-> "", st |-> st, returned |-> st.token, id_posts |-> 0,
          id_body |-> None, id_url |-> None]
    ELSE IF HasPasswordCredentials(username, st.user_id, password)
    THEN LET a == Authenticate(st, resp, t)
         IN  [raised |-> a.raised, st |-> a.st,
              returned |-> IF a.raised = "" THEN a.st.token ELSE None,
              id_posts |-> 1, id_body |-> Some(a.body),
              id_url |-> Some(a.url)]
    ELSE [raised |-> "AuthenticationError", st |-> st, returned |-> None,
          id_posts |-> 0, id_body |-> None, id_url |-> None]

\* whether the token property needs the identity service's answer
TokenNeedsIdentity(st, t) ==
    /\ ~(Truthy(st.token) /\ ~IsTokenExpired(st.token_expires_at, t))
    /\ HasPasswordCredentials(username, st.user_id, password)

(***************************************************************************)
(* conoha/client.py: service properties                                    *)
(***************************************************************************)
\* the properties of ConoHaClient that hand out the resource modules
ServiceProperties == {"identity", "compute", "volume", "image", "network",
                      "load_balancer", "dns", "object_storage"}

\* the name each resource module's constructor passes to _get_endpoint
EndpointNameOf ==
    [p \in ServiceProperties |-> IF p = "volume" THEN "block_storage" ELSE p]

\* XService(client): a new object, the oid-th constructed, whose _base_url
\* is resolved by the constructor
NewService(p, oid, ce) ==
    [oid |-> oid, property |-> p,
     base_url |-> GetEndpoint(user_endpoints, env_endpoints, ce, region,
                              EndpointNameOf[p]).url]

\* ServiceProperty, were a module constructed at every access
ServicePropertyAlwaysNew(svcs, n, ce, p) ==
    LET inst == NewService(p, n + 1, ce)
    IN  [services |-> [svcs EXCEPT ![p] = Some(inst)], objects |-> n + 1,
         returned |-> inst]

\* the property p of ConoHaClient read when the fields hold svcs, n objects
\* have been constructed and the catalog map is ce
ServiceProperty(svcs, n, ce, p) ==
    IF svcs[p] = None
    THEN LET inst == NewService(p, n + 1, ce)
         IN  [services |-> [svcs EXCEPT ![p] = Some(inst)], objects |-> n + 1,
              returned |-> inst]
    ELSE [services |-> svcs, objects |-> n, returned |-> Get(svcs[p])]

(***************************************************************************)
(* conoha/exceptions.py and conoha/base.py: error taxonomy                 *)
(***************************************************************************)
ExceptionClasses == {"ConoHaError", "AuthenticationError", "TokenExpiredError",
                     "APIError", "NotFoundError", "ConflictError",
                     "BadRequestError", "ForbiddenError"}

\* the base class of each exception class
BaseClass ==
    [c \in ExceptionClasses |->
        CASE c = "ConoHaError"         -> "Exception"
          [] c = "AuthenticationError" -> "ConoHaError"
          [] c = "TokenExpiredError"   -> "AuthenticationError"
          [] c = "APIError"            -> "ConoHaError"
          [] c = "NotFoundError"       -> "APIError"
          [] c = "ConflictError"       -> "APIError"
          [] c = "BadRequestError"     -> "APIError"
          [] c = "ForbiddenError"      -> "APIError"]

RECURSIVE IsSubclass(_, _)
IsSubclass(c, base) ==
    IF c = base THEN TRUE
    ELSE IF c \in DOMAIN BaseClass THEN IsSubclass(BaseClass[c], base)
    ELSE FALSE

\* the status_code attribute of an exception built as cls(message, status,
\* response): only APIError.__init__ stores it
StatusCodeAttr(cls, status) ==
    IF IsSubclass(cls, "APIError") THEN Some(status) ELSE None

\* error_map.get(status, APIError)
ErrorClass(status) ==
    CASE status = 400 -> "BadRequestError"
      [] status = 401 -> "TokenExpiredError"
      [] status = 403 -> "ForbiddenError"
      [] status = 404 -> "NotFoundError"
      [] status = 409 -> "ConflictError"
      [] OTHER        -> "APIError"

\* dict.update: the entries of e laid over those of d
Update(d, e) ==
    [k \in DOMAIN d \cup DOMAIN e |-> IF k \in DOMAIN e THEN e[k] ELSE d[k]]

\* RequestHeaders, were the defaults laid over the caller's headers
RequestHeadersDefaultsWin(tk, extra_headers, headers) ==
    LET defaults == [h \in {"Accept", "X-Auth-Token"} |->
                        IF h = "Accept" THEN Some("application/json") ELSE tk]
        extra    == IF extra_headers # None THEN Get(extra_headers)
                    ELSE EmptyDict
        kw       == IF headers # None THEN Get(headers) ELSE EmptyDict
    IN  Update(Update(extra, kw), defaults)

\* the headers _request sends: those of _get_headers(extra_headers) for the
\* token tk, updated with the `headers` keyword argument (None: not given)
RequestHeaders(tk, extra_headers, headers) ==
    LET defaults   == [h \in {"Accept", "X-Auth-Token"} |->
                          IF h = "Accept" THEN Some("application/json") ELSE tk]
        with_extra == IF extra_headers # None /\ DOMAIN Get(extra_headers) # {}
                      THEN Update(defaults, Get(extra_headers))
                      ELSE defaults
    IN  IF headers # None THEN Update(with_extra, Get(headers))
        ELSE with_extra

\* HandleResponse, were every status from 300 on an error
HandleResponseFrom300(status) ==
    IF status >= 300
    THEN [raised |-> ErrorClass(status),
          status_code |-> StatusCodeAttr(ErrorClass(status), status)]
    ELSE [raised |-> "", status_code |-> None]

\* HandleResponse, were it to treat only the 4xx statuses as errors
HandleResponseOnly4xx(status) ==
    IF status >= 400 /\ status < 500
    THEN [raised |-> ErrorClass(status),
          status_code |-> StatusCodeAttr(ErrorClass(status), status)]
    ELSE [raised |-> "", status_code |-> None]

\* BaseService._handle_response on a response with the given status
HandleResponse(status) ==
    IF status >= 400
    THEN [raised |-> ErrorClass(status),
          status_code |-> StatusCodeAttr(ErrorClass(status), status)]
    ELSE [raised |-> "", status_code |-> None]

(***************************************************************************)
(* conoha/compute.py and conoha/volume.py: resource methods                *)
(***************************************************************************)
\* The body of a resource response is a JSON object on the wire: the
\* sequence of its members, each a pair of a key and a value.
\* response.json(): the dict of the object, the last member of a key winning
Json(body) ==
    [k \in {body[i][1] : i \in DOMAIN body} |->
        body[CHOOSE i \in DOMAIN body :
                /\ body[i][1] = k
                /\ \A j \in DOMAIN body : body[j][1] = k => j <= i][2]]

\* the message _handle_response gives the error it raises for a response
\* whose status is 400 or more: a message is a sequence of string chunks
ErrorMessage(response) ==
    LET generic == <<"HTTP ", ToString(response.status)>>
    IN  IF ~response.is_json
        THEN IF response.text # <<>> THEN response.text ELSE generic
        ELSE LET body == Json(response.body)
             IN  IF "error" \in DOMAIN body
                 THEN IF "message" \in DOMAIN body["error"]
                      THEN body["error"]["message"] ELSE generic
                 ELSE IF "message" \in DOMAIN body
                 THEN body["message"]
                 ELSE generic

\* TopLevel, were the value of the object's first member taken
TopLevelOfFirstMember(body, key) ==
    [raised |-> "", value |-> Some(body[1][2])]

\* resp.json()[key]
TopLevel(body, key) ==
    IF key \in DOMAIN Json(body)
    THEN [raised |-> "", value |-> Some(Json(body)[key])]
    ELSE [raised |-> "KeyError", value |-> None]

ResourceMethods == {"list_servers", "get_server", "get_volume"}

\* the client property that hands out the module of each method
PropertyOf ==
    [m \in ResourceMethods |-> IF m = "get_volume" THEN "volume" ELSE "compute"]

\* the key each method indexes the response's JSON with
TopLevelKey ==
    [m \in ResourceMethods |->
        CASE m = "list_servers" -> "servers"
          [] m = "get_server"   -> "server"
          [] m = "get_volume"   -> "volume"]

\* str() of an optional string, as an f-string formats it
Str(o) == IF o = None THEN "None" ELSE Get(o)

\* the URL each method requests, for a module whose _base_url is base_url
\* and a client whose tenant id is tid
MethodUrl(m, base_url, tid) ==
    CASE m = "list_servers" -> base_url \o <<"/v2.1/servers">>
      [] m = "get_server"   -> base_url \o <<"/v2.1/servers/", "s1">>
      [] m = "get_volume"   -> base_url \o <<"/v3/", Str(tid), "/volumes/", "v1">>

(***************************************************************************)
(* Inputs: constructor arguments, environments, server answers             *)
(***************************************************************************)
UsernameChoices == {None, Some("api_user")}

PasswordChoices == {None, Some("api_password")}

UserIdChoices == {None, Some("uid0")}

TenantIdChoices == {None, Some("tid0")}

TenantNameChoices == {None, Some("tenant0")}

TokenChoices == {None, Some(""), Some("T0")}

Regions == {DEFAULT_REGION}

\* values of the constructor's `endpoints` argument
CallerDicts ==
    { [s \in {"compute", "custom"} |->
          IF s = "compute" THEN <<"https://user.compute.url">>
          ELSE <<"https://user.custom.url", "/">>],
      [s \in {"compute"} |-> <<"https://user2.compute.url">>] }

EndpointArgChoices ==
    {None, Some([s \in {"compute", "custom"} |->
                    IF s = "compute" THEN <<"https://user.compute.url">>
                    ELSE <<"https://user.custom.url", "/">>])}

\* values of os.environ
EnvironChoices ==
    { [v \in {"HOME"} |-> <<"/root">>],
      [v \in {"CONOHA_ENDPOINT_COMPUTE", "CONOHA_ENDPOINT_DNS",
              "CONOHA_ENDPOINT_IDENTITY",
              "CONOHA_ENDPOINT_IMAGE", "CONOHA_ENDPOINT_NETWORK"} |->
          CASE v = "CONOHA_ENDPOINT_COMPUTE" -> <<"https://env.compute.url", "/">>
            [] v = "CONOHA_ENDPOINT_IDENTITY" -> <<"https://env.identity.url">>
            [] v = "CONOHA_ENDPOINT_DNS"     -> <<"/">>
            [] v = "CONOHA_ENDPOINT_IMAGE"   -> <<>>
            [] v = "CONOHA_ENDPOINT_NETWORK" -> <<"https://env.network.url", "/", "/">>] }

\* names passed to _get_endpoint
ResolveNames == {"compute", "dns", "image", "network", "identity", "custom", "nonexistent"}

\* service catalogs of identity responses
Catalogs ==
    { <<>>,
      << [type |-> "compute",
          endpoints |-> << [interface |-> "internal", url |-> <<"https://int.compute">>],
                           [interface |-> "public", url |-> <<"https://cat.compute.a">>],
                           [interface |-> "public", url |-> <<"https://cat.compute.b">>] >>],
         [type |-> "dns",
          endpoints |-> << [interface |-> "public", url |-> <<"https://cat.dns">>] >>] >>,
      << [type |-> "compute",
          endpoints |-> << [interface |-> "public", url |-> <<"https://cat.compute.b">>] >>],
         [type |-> "baremetal",
          endpoints |-> << [interface |-> "public", url |-> <<"https://cat.baremetal">>] >>],
         [type |-> "volumev3",
          endpoints |-> << [interface |-> "admin", url |-> <<"https://adm.volume">>] >>] >>,
      << [type |-> "identity",
          endpoints |-> << [interface |-> "public", url |-> <<"https://cat.identity">>] >>] >> }

\* answers of the identity service: the status, the x-subject-token header
\* (None: header absent) and the token metadata of the body
IdResponse(st, tk, exp, proj, usr, cat) ==
    [status |-> st, subject_token |-> tk, expires_at |-> exp, project |-> proj,
     user |-> usr, catalog |-> cat]

CatalogAt(i) ==
    CHOOSE c \in Catalogs :
        CASE i = 0 -> Len(c) = 0
          [] i = 1 -> Len(c) = 2
          [] i = 2 -> Len(c) = 3
          [] i = 3 -> Len(c) = 1

IdResponses ==
    { IdResponse(IdentitySuccess, Some("T1"), Some(IsoString(301, "Z")),
                 Some("p1"), Some("u1"), CatalogAt(1)),
      IdResponse(IdentitySuccess, Some("T2"), None, None, None, CatalogAt(2)),
      IdResponse(IdentitySuccess, Some("T2"), Some(IsoString(118801, "+09:00")),
                 Some("p1"), None, CatalogAt(0)),
      IdResponse(IdentitySuccess, None, Some(IsoString(301, "+00:00")),
                 None, None, CatalogAt(3)),
      IdResponse(200, Some("T1"), Some(IsoString(86401, "Z")),
                 Some("p1"), Some("u1"), CatalogAt(1)),
      IdResponse(401, None, None, None, None, CatalogAt(0)) }

EmptyBody == IdResponse(0, None, None, None, None, <<>>)

\* answers of the identity service that announce a created token in the
\* status and the header while the JSON body has no "token" member
BareResponses ==
    { [status |-> IdentitySuccess, subject_token |-> Some("T3")] }

\* the properties the caller reads
AccessedProperties == {"compute", "volume"}

\* a response whose text is the JSON object of the given members
JsonResponse(status, text, members) ==
    [status |-> status, text |-> <<text>>, is_json |-> TRUE, body |-> members]

\* a response whose text is not JSON: response.json() raises ValueError
TextResponse(status, text) ==
    [status |-> status, text |-> text, is_json |-> FALSE, body |-> <<>>]

\* resource responses
ResourceResponses ==
    { JsonResponse(200, "{\"servers\": [{..s1..}, {..s2..}]}",
          << <<"servers", << [id |-> "s1", name |-> "test"],
                             [id |-> "s2", name |-> "db"] >> >> >>),
      JsonResponse(200, "{\"server\": {..s1..}}",
          << <<"server", [id |-> "s1", status |-> "ACTIVE"]>> >>),
      JsonResponse(200, "{\"links\": {..}, \"volume\": {..v1..}}",
          << <<"links", [self |-> "https://block-storage/v1"]>>,
             <<"volume", [id |-> "v1", size |-> 100]>> >>),
      JsonResponse(404, "{\"error\": {\"message\": \"not found\"}}",
          << <<"error", [message |-> <<"not found">>]>> >>),
      JsonResponse(400, "{\"error\": {\"message\": \"bad\"}, \"message\": \"top\"}",
          << <<"error", [message |-> <<"bad">>]>>, <<"message", <<"top">>>> >>),
      JsonResponse(400, "{\"error\": {\"code\": 400}, \"message\": \"top\"}",
          << <<"error", [code |-> 400]>>, <<"message", <<"top">>>> >>),
      JsonResponse(409, "{\"message\": \"conflict\"}",
          << <<"message", <<"conflict">>>> >>),
      JsonResponse(404, "{\"detail\": \"gone\"}",
          << <<"detail", <<"gone">>>> >>),
      TextResponse(500, <<"Internal Server Error">>),
      TextResponse(403, <<>>) }

\* values of the `extra_headers` and `headers` arguments of _request
ExtraHeaderChoices ==
    { None, Some(EmptyDict),
      Some([h \in {"Content-Type", "Accept"} |->
               IF h = "Accept" THEN Some("text/plain")
               ELSE Some("application/json")]) }

HeaderChoices ==
    { None,
      Some([h \in {"Accept"} |-> Some("application/xml")]),
      Some([h \in {"X-Auth-Token", "X-Trace"} |->
               IF h = "X-Trace" THEN Some("trace-1") ELSE Some("caller-token")]) }

\* status codes of resource responses
Statuses == {200, 399, 400, 401, 403, 404, 409, 500}

\* clock advances
TickDeltas == {1, 86100}

\* threads of the caller that share one client
Threads == {1, 2}

\* a thread that is not inside a read of client.token: resp is the identity
\* answer a thread inside authenticate() holds, and alone tells that no
\* other thread has been inside a read since this thread began its own
IdleThread == [pc |-> "idle", resp |-> None, alone |-> FALSE]

\* the identity answers given to threads
ThreadIdResponses == {r \in IdResponses : Len(r.catalog) = 0}

(***************************************************************************)
(* State after the assignments of ConoHaClient.__init__ (lines 55-84); the *)
(* constructor's auto-authentication (lines 87-88) is the action Construct *)
(***************************************************************************)
NoCall ==
    [seq |-> 0, op |-> "none", arg |-> "", id_posts |-> 0, id_resp |-> None,
     id_body |-> None, id_url |-> None, statuses |-> <<>>, reauth_on_401 |-> 0, raised |-> "",
     status_code |-> None, returned |-> None]

Constructed ==
    /\ region \in Regions
    /\ token \in TokenChoices
    /\ token_expires_at = None
    /\ tenant_id \in TenantIdChoices
    /\ user_id \in UserIdChoices
    /\ username \in UsernameChoices
    /\ password \in PasswordChoices
    /\ tenant_name \in TenantNameChoices
    /\ caller_endpoints \in EndpointArgChoices
    /\ environ \in EnvironChoices
    /\ user_endpoints = CopyEndpoints(caller_endpoints)
    /\ env_endpoints = LoadEnvEndpoints(environ)
    /\ catalog_endpoints = EmptyDict
    /\ now = 0
    /\ ticks = 0
    /\ pc = "idle"
    /\ call = NoCall
    /\ services = [p \in ServiceProperties |-> None]
    /\ objects = 0
    /\ threads = [t \in Threads |-> IdleThread]
    /\ phase = IF ~Truthy(token) /\ (Truthy(username) \/ Truthy(user_id))
                  /\ Truthy(password)
               THEN "constructing" ELSE "ready"

\* clients scoped to a project by its id and constructed with no endpoint
\* overrides, neither in the `endpoints` argument nor in the environment
Init ==
    /\ Constructed
    /\ tenant_id # None /\ tenant_name = None
    /\ caller_endpoints = None
    /\ env_endpoints = EmptyDict

(***************************************************************************)
(* Actions                                                                 *)
(***************************************************************************)
\* SetAuthFields, were the user id of the response not stored
SetAuthFieldsKeepingUser(st) ==
    /\ token' = st.token
    /\ token_expires_at' = st.token_expires_at
    /\ tenant_id' = st.tenant_id
    /\ user_id' = user_id
    /\ catalog_endpoints' = st.catalog_endpoints

\* assignment of the fields authenticate() may assign
SetAuthFields(st) ==
    /\ token' = st.token
    /\ token_expires_at' = st.token_expires_at
    /\ tenant_id' = st.tenant_id
    /\ user_id' = st.user_id
    /\ catalog_endpoints' = st.catalog_endpoints

Config == <<region, username, password, tenant_name, user_endpoints, env_endpoints>>

World == <<environ, caller_endpoints, now, ticks>>

Modules == <<services, objects>>

\* Construct, were a failed authentication swallowed by the constructor
ConstructSwallowingFailure ==
    /\ phase = "constructing"
    /\ \E resp \in IdResponses :
        LET a == Authenticate(AuthFields, resp, now)
        IN  /\ SetAuthFields(a.st)
            /\ phase' = "ready"
            /\ call' = [seq |-> 1 - call.seq, op |-> "init", arg |-> "",
                        id_posts |-> 1, id_resp |-> Some(resp),
                        id_body |-> Some(a.body), id_url |-> Some(a.url),
                        statuses |-> <<>>, reauth_on_401 |-> 0,
                        raised |-> "", status_code |-> None,
                        returned |-> None]
    /\ UNCHANGED <<Config, Modules, threads, World, pc>>

\* the end of ConoHaClient.__init__: auto-authentication
Construct ==
    /\ phase = "constructing"
    /\ \E resp \in IdResponses :
        LET a == Authenticate(AuthFields, resp, now)
        IN  /\ SetAuthFields(a.st)
            /\ phase' = IF a.raised = "" THEN "ready" ELSE "failed"
            /\ call' = [seq |-> 1 - call.seq, op |-> "init", arg |-> "",
                        id_posts |-> 1, id_resp |-> Some(resp),
                        id_body |-> Some(a.body), id_url |-> Some(a.url),
                        statuses |-> <<>>, reauth_on_401 |-> 0,
                        raised |-> a.raised, status_code |-> None,
                        returned |-> None]
    /\ UNCHANGED <<Config, Modules, threads, World, pc>>

\* the caller calls client.authenticate()
AuthenticateCall ==
    /\ phase = "ready" /\ pc = "idle"
    /\ \E resp \in IdResponses :
        LET a == Authenticate(AuthFields, resp, now)
        IN  /\ SetAuthFields(a.st)
            /\ call' = [seq |-> 1 - call.seq, op |-> "authenticate", arg |-> "",
                        id_posts |-> 1, id_resp |-> Some(resp),
                        id_body |-> Some(a.body), id_url |-> Some(a.url),
                        statuses |-> <<>>, reauth_on_401 |-> 0,
                        raised |-> a.raised, status_code |-> None,
                        returned |-> a.returned]
    /\ UNCHANGED <<Config, Modules, threads, World, pc, phase>>

\* the caller calls client.authenticate() and the identity service answers
\* with a body that has no "token" member
AuthenticateBareAnswer ==
    /\ phase = "ready" /\ pc = "idle"
    /\ \E resp \in BareResponses :
        LET a == Authenticate(AuthFields, resp, now)
        IN  /\ SetAuthFields(a.st)
            /\ call' = [seq |-> 1 - call.seq, op |-> "authenticate", arg |-> "",
                        id_posts |-> 1, id_resp |-> Some(resp),
                        id_body |-> Some(a.body), id_url |-> Some(a.url),
                        statuses |-> <<>>,
                        reauth_on_401 |-> 0, raised |-> a.raised,
                        status_code |-> None, returned |-> a.returned]
    /\ UNCHANGED <<Config, Modules, threads, World, pc, phase>>

\* the identity answers the token property may consume at this point
IdAnswers == IF TokenNeedsIdentity(AuthFields, now) THEN IdResponses ELSE {EmptyBody}

\* the caller reads client.token
TokenCall ==
    /\ phase = "ready" /\ pc = "idle"
    /\ \E resp \in IdAnswers :
        LET r == TokenProperty(AuthFields, resp, now)
        IN  /\ SetAuthFields(r.st)
            /\ call' = [seq |-> 1 - call.seq, op |-> "token", arg |-> "",
                        id_posts |-> r.id_posts,
                        id_resp |-> IF r.id_posts = 0 THEN None ELSE Some(resp),
                        id_body |-> r.id_body, id_url |-> r.id_url,
                        statuses |-> <<>>, reauth_on_401 |-> 0,
                        raised |-> r.raised, status_code |-> None,
                        returned |-> r.returned]
    /\ UNCHANGED <<Config, Modules, threads, World, pc, phase>>

\* RequestBeginWith, were the request sent whatever the token property did
RequestBeginWithSendingAnyway(extra_headers, headers) ==
    /\ phase = "ready" /\ pc = "idle"
    /\ \E resp \in IdAnswers :
        LET r == TokenProperty(AuthFields, resp, now)
        IN  /\ SetAuthFields(r.st)
            /\ pc' = "inflight"
            /\ call' = [seq |-> 1 - call.seq, op |-> "request", arg |-> "",
                        id_posts |-> r.id_posts,
                        id_resp |-> IF r.id_posts = 0 THEN None ELSE Some(resp),
                        id_body |-> r.id_body, id_url |-> r.id_url,
                        statuses |-> <<>>,
                        reauth_on_401 |-> 0,
                        raised |-> r.raised, status_code |-> None,
                        returned |-> None,
                        extra_headers |-> extra_headers,
                        kw_headers |-> headers,
                        headers |-> Some(RequestHeaders(r.returned,
                                                  extra_headers, headers))]
    /\ UNCHANGED <<Config, Modules, threads, World, phase>>

\* BaseService._request up to the HTTP call (lines 39-42), called with the
\* given `extra_headers` and `headers`: the headers are built, which reads
\* client.token
RequestBeginWith(extra_headers, headers) ==
    /\ phase = "ready" /\ pc = "idle"
    /\ \E resp \in IdAnswers :
        LET r == TokenProperty(AuthFields, resp, now)
        IN  /\ SetAuthFields(r.st)
            /\ pc' = IF r.raised = "" THEN "inflight" ELSE "idle"
            /\ call' = [seq |-> 1 - call.seq, op |-> "request", arg |-> "",
                        id_posts |-> r.id_posts,
                        id_resp |-> IF r.id_posts = 0 THEN None ELSE Some(resp),
                        id_body |-> r.id_body, id_url |-> r.id_url,
                        statuses |-> <<>>,
                        reauth_on_401 |-> 0,
                        raised |-> r.raised, status_code |-> None,
                        returned |-> None,
                        extra_headers |-> extra_headers,
                        kw_headers |-> headers,
                        headers |-> IF r.raised = ""
                                    THEN Some(RequestHeaders(r.returned,
                                                  extra_headers, headers))
                                    ELSE None]
    /\ UNCHANGED <<Config, Modules, threads, World, phase>>

\* a resource request that passes no headers of its own
RequestBegin == RequestBeginWith(None, None)

\* a resource request that passes headers of its own
RequestBeginWithHeaders ==
    \E extra_headers \in ExtraHeaderChoices, headers \in HeaderChoices :
        RequestBeginWith(extra_headers, headers)

\* RequestComplete, were it to re-authenticate and retry on every 401 while
\* password credentials are configured
RequestCompleteRetryLoop ==
    /\ phase = "ready" /\ pc = "inflight"
    /\ \E status \in Statuses :
        IF status = 401 /\ HasPasswordCredentials(username, user_id, password)
        THEN \E resp \in IdResponses :
                LET a == Authenticate(AuthFields, resp, now)
                IN  /\ SetAuthFields(a.st)
                    /\ call' = [call EXCEPT !.statuses = Append(@, status),
                                            !.reauth_on_401 = @ + 1,
                                            !.id_posts = @ + 1]
                    /\ pc' = "inflight"
        ELSE LET h == HandleResponse(status)
             IN  /\ call' = [call EXCEPT !.statuses = Append(@, status),
                                         !.raised = h.raised,
                                         !.status_code = h.status_code,
                                         !.returned = IF h.raised = ""
                                                      THEN Some(status) ELSE None]
                 /\ pc' = "idle"
                 /\ UNCHANGED <<token, token_expires_at, tenant_id, user_id,
                                catalog_endpoints>>
    /\ UNCHANGED <<Config, Modules, threads, World, phase>>

\* RequestComplete, were it to re-authenticate and retry once on a first 401
\* without looking at the credentials
RequestCompleteRetryAlways ==
    /\ phase = "ready" /\ pc = "inflight"
    /\ \E status \in Statuses :
        IF status = 401 /\ Len(call.statuses) = 0
        THEN \E resp \in IdResponses :
                LET a == Authenticate(AuthFields, resp, now)
                IN  /\ SetAuthFields(a.st)
                    /\ call' = [call EXCEPT !.statuses = Append(@, status),
                                            !.reauth_on_401 = @ + 1,
                                            !.id_posts = @ + 1,
                                            !.raised = a.raised]
                    /\ pc' = IF a.raised = "" THEN "inflight" ELSE "idle"
        ELSE LET h == HandleResponse(status)
             IN  /\ call' = [call EXCEPT !.statuses = Append(@, status),
                                         !.raised = h.raised,
                                         !.status_code = h.status_code,
                                         !.returned = IF h.raised = ""
                                                      THEN Some(status) ELSE None]
                 /\ pc' = "idle"
                 /\ UNCHANGED <<token, token_expires_at, tenant_id, user_id,
                                catalog_endpoints>>
    /\ UNCHANGED <<Config, Modules, threads, World, phase>>

\* BaseService._request from the HTTP call on (lines 44-48): the server
\* answers with some status, _handle_response raises or the response is
\* returned
RequestComplete ==
    /\ phase = "ready" /\ pc = "inflight"
    /\ \E status \in Statuses :
        LET h == HandleResponse(status)
        IN  call' = [call EXCEPT !.statuses = Append(@, status),
                                 !.raised = h.raised,
                                 !.status_code = h.status_code,
                                 !.returned = IF h.raised = "" THEN Some(status)
                                              ELSE None]
    /\ pc' = "idle"
    /\ UNCHANGED <<Config, Modules, threads, World, phase, token, token_expires_at, tenant_id,
                   user_id, catalog_endpoints>>

\* the caller calls client._get_endpoint(name)
ResolveCall ==
    /\ phase = "ready" /\ pc = "idle"
    /\ \E name \in ResolveNames :
        LET g == GetEndpoint(user_endpoints, env_endpoints, catalog_endpoints,
                             region, name)
        IN  call' = [seq |-> 1 - call.seq, op |-> "resolve", arg |-> name,
                     id_posts |-> 0, id_resp |-> None, id_body |-> None,
                     id_url |-> None,
                     statuses |-> <<>>,
                     reauth_on_401 |-> 0, raised |-> g.raised,
                     status_code |-> None,
                     returned |-> IF g.raised = "" THEN Some(g.url) ELSE None]
    /\ UNCHANGED <<Config, Modules, threads, World, pc, phase, token, token_expires_at, tenant_id,
                   user_id, catalog_endpoints>>

\* the caller reads a service property of the client
ServiceAccess ==
    /\ phase = "ready" /\ pc = "idle"
    /\ \E p \in AccessedProperties :
        LET r == ServiceProperty(services, objects, catalog_endpoints, p)
        IN  /\ services' = r.services
            /\ objects' = r.objects
            /\ call' = [seq |-> 1 - call.seq, op |-> "service", arg |-> p,
                        id_posts |-> 0, id_resp |-> None, id_body |-> None,
                     id_url |-> None,
                        statuses |-> <<>>, reauth_on_401 |-> 0, raised |-> "",
                        status_code |-> None, returned |-> Some(r.returned)]
    /\ UNCHANGED <<Config, World, threads, pc, phase, token, token_expires_at,
                   tenant_id, user_id, catalog_endpoints>>

\* MethodBegin, were the base URL resolved again at every call
MethodBeginResolving ==
    /\ phase = "ready" /\ pc = "idle"
    /\ \E m \in ResourceMethods :
        /\ services[PropertyOf[m]] # None
        /\ \E resp \in IdAnswers :
            LET r   == TokenProperty(AuthFields, resp, now)
                url == MethodUrl(m, GetEndpoint(user_endpoints, env_endpoints,
                                     catalog_endpoints, region,
                                     EndpointNameOf[PropertyOf[m]]).url,
                                 tenant_id)
            IN  /\ SetAuthFields(r.st)
                /\ pc' = IF r.raised = "" THEN "inflight" ELSE "idle"
                /\ call' = [seq |-> 1 - call.seq, op |-> "method", arg |-> m,
                            id_posts |-> r.id_posts,
                            id_resp |-> IF r.id_posts = 0 THEN None
                                        ELSE Some(resp),
                            id_body |-> r.id_body, id_url |-> r.id_url,
                        statuses |-> <<>>,
                            reauth_on_401 |-> 0, raised |-> r.raised,
                            status_code |-> None, returned |-> None,
                            url |-> url, response |-> None,
                            message |-> None]
    /\ UNCHANGED <<Config, Modules, threads, World, phase>>

\* a resource method up to the HTTP call: the URL is built from the module's
\* _base_url, then _request builds the headers, which reads client.token
MethodBegin ==
    /\ phase = "ready" /\ pc = "idle"
    /\ \E m \in ResourceMethods :
        /\ services[PropertyOf[m]] # None
        /\ \E resp \in IdAnswers :
            LET r   == TokenProperty(AuthFields, resp, now)
                url == MethodUrl(m, Get(services[PropertyOf[m]]).base_url,
                                 tenant_id)
            IN  /\ SetAuthFields(r.st)
                /\ pc' = IF r.raised = "" THEN "inflight" ELSE "idle"
                /\ call' = [seq |-> 1 - call.seq, op |-> "method", arg |-> m,
                            id_posts |-> r.id_posts,
                            id_resp |-> IF r.id_posts = 0 THEN None
                                        ELSE Some(resp),
                            id_body |-> r.id_body, id_url |-> r.id_url,
                        statuses |-> <<>>,
                            reauth_on_401 |-> 0, raised |-> r.raised,
                            status_code |-> None, returned |-> None,
                            url |-> url, response |-> None,
                            message |-> None]
    /\ UNCHANGED <<Config, Modules, threads, World, phase>>

\* a resource method from the HTTP call on: _handle_response raises, or the
\* method returns the value under its top-level key
MethodComplete ==
    /\ phase = "ready" /\ pc = "inflight" /\ call.op = "method"
    /\ \E response \in ResourceResponses :
        LET h == HandleResponse(response.status)
            v == TopLevel(response.body, TopLevelKey[call.arg])
        IN  call' = [call EXCEPT !.statuses = Append(@, response.status),
                                 !.response = Some(response),
                                 !.raised = IF h.raised # "" THEN h.raised
                                            ELSE v.raised,
                                 !.status_code = h.status_code,
                                 !.message = IF h.raised # ""
                                             THEN Some(ErrorMessage(response))
                                             ELSE None,
                                 !.returned = IF h.raised # "" THEN None
                                              ELSE v.value]
    /\ pc' = "idle"
    /\ UNCHANGED <<Config, Modules, threads, World, phase, token, token_expires_at,
                   tenant_id, user_id, catalog_endpoints>>

\* the other threads lose `alone` when thread t begins a read
Overtaken(t) ==
    [u \in Threads |-> IF u = t THEN threads[u]
                       ELSE [threads[u] EXCEPT !.alone = FALSE]]

\* ThreadCheck, were the stored token never looked at
ThreadCheckAlwaysAuthenticating(t) ==
    /\ phase = "ready" /\ threads[t].pc = "idle"
    /\ threads' = [Overtaken(t) EXCEPT ![t] =
            [pc |-> IF HasPasswordCredentials(username, user_id, password)
                    THEN "posting" ELSE "idle",
             resp |-> None,
             alone |-> \A u \in Threads \ {t} : threads[u].pc = "idle"]]
    /\ UNCHANGED <<Config, Modules, World, phase, pc, call, token,
                   token_expires_at, tenant_id, user_id, catalog_endpoints>>

\* thread t begins a read of client.token (lines 93-95): the stored token is
\* returned, or authenticate() is entered, or AuthenticationError is raised
ThreadCheck(t) ==
    /\ phase = "ready" /\ threads[t].pc = "idle"
    /\ threads' = [Overtaken(t) EXCEPT ![t] =
            [pc |-> IF Truthy(token) /\ ~IsTokenExpired(token_expires_at, now)
                    THEN "returning"
                    ELSE IF HasPasswordCredentials(username, user_id, password)
                    THEN "posting" ELSE "idle",
             resp |-> None,
             alone |-> \A u \in Threads \ {t} : threads[u].pc = "idle"]]
    /\ UNCHANGED <<Config, Modules, World, phase, pc, call, token,
                   token_expires_at, tenant_id, user_id, catalog_endpoints>>

\* thread t, inside authenticate(), posts to the identity service and gets
\* its answer (lines 190-196); a rejection raises out of the read
ThreadPost(t) ==
    /\ threads[t].pc = "posting"
    /\ \E resp \in ThreadIdResponses :
        threads' = [threads EXCEPT ![t] =
            IF AuthRejected(resp.status) THEN IdleThread
            ELSE [@ EXCEPT !.pc = "assign_token", !.resp = Some(resp)]]
    /\ UNCHANGED <<Config, Modules, World, phase, pc, call, token,
                   token_expires_at, tenant_id, user_id, catalog_endpoints>>

\* thread t stores the token of its answer (line 198)
ThreadAssignToken(t) ==
    /\ threads[t].pc = "assign_token"
    /\ token' = Get(threads[t].resp).subject_token
    /\ threads' = [threads EXCEPT ![t].pc = "assign_rest"]
    /\ UNCHANGED <<Config, Modules, World, phase, pc, call, token_expires_at,
                   tenant_id, user_id, catalog_endpoints>>

\* thread t stores the expiry, the ids and the catalog entries of its answer
\* (lines 199-218)
ThreadAssignRest(t) ==
    /\ threads[t].pc = "assign_rest"
    /\ LET a == Authenticate(AuthFields, Get(threads[t].resp), now)
       IN  /\ token_expires_at' = a.st.token_expires_at
           /\ tenant_id' = a.st.tenant_id
           /\ user_id' = a.st.user_id
           /\ catalog_endpoints' = a.st.catalog_endpoints
    /\ threads' = [threads EXCEPT ![t].pc = "returning"]
    /\ UNCHANGED <<Config, Modules, World, phase, pc, call, token>>

\* thread t returns self._token (lines 94 and 97, 220)
ThreadReturn(t) ==
    /\ threads[t].pc = "returning"
    /\ threads' = [threads EXCEPT ![t] = IdleThread]
    /\ UNCHANGED <<Config, Modules, World, phase, pc, call, token,
                   token_expires_at, tenant_id, user_id, catalog_endpoints>>

\* some thread takes a step of its read of client.token
ThreadStep ==
    \E t \in Threads :
        \/ ThreadCheck(t)
        \/ ThreadPost(t)
        \/ ThreadAssignToken(t)
        \/ ThreadAssignRest(t)
        \/ ThreadReturn(t)

\* time passes
Tick ==
    /\ ticks < MaxTicks
    /\ \E d \in TickDeltas : now' = now + d
    /\ ticks' = ticks + 1
    /\ UNCHANGED <<Config, Modules, threads, phase, pc, call, token, token_expires_at, tenant_id,
                   user_id, catalog_endpoints, environ, caller_endpoints>>

\* the process environment changes after construction
SetEnviron ==
    /\ phase = "ready" /\ pc = "idle"
    /\ \E e \in EnvironChoices : e # environ /\ environ' = e
    /\ UNCHANGED <<Config, Modules, threads, phase, pc, call, token, token_expires_at, tenant_id,
                   user_id, catalog_endpoints, caller_endpoints, now, ticks>>

\* the caller changes the dict it passed as `endpoints`
MutateCallerEndpoints ==
    /\ phase = "ready" /\ pc = "idle"
    /\ caller_endpoints # None
    /\ \E d \in CallerDicts : Some(d) # caller_endpoints /\ caller_endpoints' = Some(d)
    /\ UNCHANGED <<Config, Modules, threads, phase, pc, call, token, token_expires_at, tenant_id,
                   user_id, catalog_endpoints, environ, now, ticks>>

\* token manager and request executor: the calls of one caller, and time
Next ==
    \/ Construct
    \/ AuthenticateCall
    \/ TokenCall
    \/ RequestBegin
    \/ RequestComplete
    \/ Tick

Spec == Init /\ [][Next]_vars

\* endpoint resolver: clients constructed with a username and a password,
\* whose caller resolves names, authenticates, and changes the environment
\* and its own endpoint dict
InitResolver ==
    /\ Constructed
    /\ username # None /\ password # None /\ user_id = None
    /\ tenant_id # None /\ tenant_name = None
    /\ token # Some("")

NextResolver ==
    \/ Construct
    \/ AuthenticateCall
    \/ ResolveCall
    \/ SetEnviron
    \/ MutateCallerEndpoints

SpecResolver == InitResolver /\ [][NextResolver]_vars

\* resource modules: clients constructed with a username and a password,
\* whose caller authenticates and reads the service properties
InitServices ==
    /\ Constructed
    /\ username # None /\ password # None /\ user_id = None
    /\ tenant_id # None /\ tenant_name = None
    /\ token # Some("")
    /\ caller_endpoints = None

NextServices ==
    \/ Construct
    \/ AuthenticateCall
    \/ ServiceAccess
    \/ MethodBegin
    \/ MethodComplete

SpecServices == InitServices /\ [][NextServices]_vars

\* token state: clients constructed with a username and a password, whose
\* caller authenticates and reads the token while time passes, the identity
\* service answering within or outside its contract
InitTokens ==
    /\ Init
    /\ username # None /\ password # None /\ user_id = None

NextTokens ==
    \/ Construct
    \/ AuthenticateCall
    \/ AuthenticateBareAnswer
    \/ TokenCall
    \/ Tick

SpecTokens == InitTokens /\ [][NextTokens]_vars

\* request headers: clients constructed with a username and a password,
\* whose caller issues resource requests with headers of its own
InitHeaders ==
    /\ Init
    /\ username # None /\ password # None /\ user_id = None

NextHeaders ==
    \/ Construct
    \/ RequestBeginWithHeaders
    \/ RequestComplete

SpecHeaders == InitHeaders /\ [][NextHeaders]_vars

\* shared client: a client constructed with a username and a password and
\* read by two threads with no synchronization of their own
InitThreads ==
    /\ Init
    /\ username # None /\ password # None /\ user_id = None
    /\ token = None

NextThreads ==
    \/ Construct
    \/ ThreadStep
    \/ Tick

SpecThreads == InitThreads /\ [][NextThreads]_vars

\* authentication requests: clients of every combination of user identifier
\* and project scope, whose caller authenticates and reads the token
InitAuth ==
    /\ Constructed
    /\ token # Some("")
    /\ caller_endpoints = None
    /\ env_endpoints = EmptyDict

NextAuth ==
    \/ Construct
    \/ AuthenticateCall
    \/ TokenCall

SpecAuth == InitAuth /\ [][NextAuth]_vars

(***************************************************************************)
(* Properties of the request executor (conoha/base.py)                     *)
(***************************************************************************)
\* a resource request has returned or raised
RequestDone == call.op = "request" /\ pc = "idle"

\* a resource request has ended after at least one HTTP attempt
RequestAnswered == RequestDone /\ Len(call.statuses) >= 1

LastStatus == call.statuses[Len(call.statuses)]

\* username or user id, plus password
PasswordCredentialsConfigured ==
    /\ password # None /\ Get(password) # ""
    /\ \/ username # None /\ Get(username) # ""
       \/ user_id # None /\ Get(user_id) # ""

\* C1: when the first HTTP attempt returns 401 and password credentials are
\* configured, authenticate() is invoked exactly once and the request is
\* issued exactly once more; a retry with status < 400 is returned
C1_RetryOnceAfter401 ==
    (RequestAnswered /\ call.statuses[1] = 401 /\ PasswordCredentialsConfigured)
        => /\ call.reauth_on_401 = 1
           /\ Len(call.statuses) = 2
           /\ (call.statuses[2] < 400
                  => call.raised = "" /\ call.returned = Some(call.statuses[2]))

C3_NoRetryWithoutPassword ==
    (RequestAnswered /\ call.statuses[1] = 401 /\ ~Truthy(password))
        => /\ Len(call.statuses) = 1
           /\ call.reauth_on_401 = 0
           /\ call.id_posts = 0
           /\ call.raised = "TokenExpiredError"

C3_Witness ==
    /\ RequestAnswered /\ password = None /\ token = Some("T0")
    /\ call.statuses = <<401>> /\ call.raised = "TokenExpiredError"

MappedStatuses == {400, 401, 403, 404, 409}

MappedKind(status) ==
    IF status = 400 THEN "BadRequestError"
    ELSE IF status = 401 THEN "TokenExpiredError"
    ELSE IF status = 403 THEN "ForbiddenError"
    ELSE IF status = 404 THEN "NotFoundError"
    ELSE "ConflictError"

\* C4: a response status in {400, 401, 403, 404, 409} raises exactly the
\* mapped error kind, and the raised error carries status_code equal to the
\* status
C4_MappedErrorCarriesStatus ==
    (RequestAnswered /\ LastStatus \in MappedStatuses)
        => /\ call.raised = MappedKind(LastStatus)
           /\ call.status_code = Some(LastStatus)

\* C5: a status >= 400 outside {400, 401, 403, 404, 409} raises APIError
\* carrying the status, and a status >= 400 other than 401 fails at once,
\* with one HTTP attempt and no re-authentication
C5_OtherErrorsFailImmediately ==
    (RequestAnswered /\ call.statuses[1] >= 400)
        => /\ (call.statuses[1] \notin MappedStatuses
                  => /\ call.raised = "APIError"
                     /\ call.status_code = Some(call.statuses[1]))
           /\ (call.statuses[1] # 401
                  => /\ Len(call.statuses) = 1
                     /\ call.reauth_on_401 = 0
                     /\ call.raised # ""
                     /\ call.returned = None)

C5_Witness ==
    /\ RequestAnswered /\ call.statuses = <<500>>
    /\ call.raised = "APIError" /\ call.status_code = Some(500)

(***************************************************************************)
(* Properties of the token manager (conoha/client.py)                      *)
(***************************************************************************)
\* the step is a read of client.token by the caller
TokenCallStep == call'.seq # call.seq /\ call'.op = "token"

\* before the step, the token is absent or the time has reached the expiry
TokenAbsentOrExpired ==
    \/ token = None
    \/ Get(token) = ""
    \/ (token_expires_at # None /\ now >= Get(token_expires_at))

\* C6: with password credentials configured, the token property performs an
\* identity exchange exactly when the token is absent or the current time
\* has reached the stored expiry; otherwise it returns the cached token with
\* no HTTP call and leaves token and expiry unchanged
C6_ExchangeIffAbsentOrExpired ==
    [][(TokenCallStep /\ PasswordCredentialsConfigured)
          => /\ (call'.id_posts = 1) <=> TokenAbsentOrExpired
             /\ call'.id_posts \in {0, 1}
             /\ (~TokenAbsentOrExpired
                    => /\ call'.raised = ""
                       /\ call'.returned = token
                       /\ token' = token
                       /\ token_expires_at' = token_expires_at)]_vars

C6_Witness ==
    /\ call.op = "token" /\ call.id_posts = 1 /\ call.raised = ""
    /\ PasswordCredentialsConfigured
    /\ ticks >= 1 /\ token = Some("T2")

\* C7: with the token absent or expired and no password credentials, the
\* token property raises AuthenticationError with no HTTP call and changes
\* no client state
C7_NoCredentialsRaises ==
    [][(TokenCallStep /\ TokenAbsentOrExpired /\ ~PasswordCredentialsConfigured)
          => /\ call'.raised = "AuthenticationError"
             /\ call'.id_posts = 0
             /\ call'.returned = None
             /\ UNCHANGED <<phase, region, token, token_expires_at, tenant_id,
                            user_id, username, password, tenant_name,
                            user_endpoints, env_endpoints, catalog_endpoints>>]_vars

C7_Witness ==
    /\ call.op = "token" /\ call.raised = "AuthenticationError"
    /\ call.id_posts = 0
    /\ token = None /\ password = None /\ username = None /\ user_id = None

\* the step completed an identity exchange that succeeded
AuthenticatedStep ==
    /\ call'.seq # call.seq
    /\ call'.id_resp # None
    /\ Get(call'.id_resp).status = 201

\* the most recent call completed an identity exchange that succeeded
Authenticated ==
    /\ call.id_resp # None
    /\ Get(call.id_resp).status = 201

\* C9: after a successful authenticate() the catalog-derived endpoint map
\* holds exactly the entries extracted from that response's catalog
C9_CatalogReplaced ==
    Authenticated
        => catalog_endpoints = ParseCatalog(EmptyDict, Get(call.id_resp).catalog)

(***************************************************************************)
(* Properties of the endpoint resolver (conoha/client.py)                  *)
(***************************************************************************)
\* what client._get_endpoint(name) returns or raises in the current state
Resolve(name) ==
    GetEndpoint(user_endpoints, env_endpoints, catalog_endpoints, region, name)

\* the four sources in priority order, as maps from name to URL
Sources ==
    << user_endpoints, env_endpoints, catalog_endpoints,
       [s \in ServiceNames |-> Format(BASE_URLS[s], region)] >>

SourcesContaining(name) == {i \in 1..4 : name \in DOMAIN Sources[i]}

\* C8: resolve returns the value of the highest-priority source containing
\* the name (user, environment, catalog, template) and raises ValueError
\* exactly when no source contains it
C8_Precedence ==
    call.op = "resolve"
        => IF SourcesContaining(call.arg) = {}
           THEN call.raised = "ValueError" /\ call.returned = None
           ELSE /\ call.raised = ""
                /\ call.returned =
                      Some(Sources[MinOf(SourcesContaining(call.arg))][call.arg])

C8_Witness ==
    /\ call.op = "resolve" /\ call.arg = "compute"
    /\ SourcesContaining("compute") = {1, 2, 3, 4}
    /\ call.returned = Some(user_endpoints["compute"])
    /\ user_endpoints["compute"] # env_endpoints["compute"]
    /\ env_endpoints["compute"] # catalog_endpoints["compute"]

\* C10: what resolve returns from the constructor's override map and from
\* the environment overrides never changes after construction; a resolved
\* value changes only for a name served by the catalog, and only in a step
\* that authenticates
C10_OverridesFixed ==
    [][/\ user_endpoints' = user_endpoints
       /\ env_endpoints' = env_endpoints
       /\ \A n \in ResolveNames :
            /\ (n \in DOMAIN user_endpoints \cup DOMAIN env_endpoints
                   => Resolve(n)' = Resolve(n))
            /\ (Resolve(n)' # Resolve(n)
                   => /\ AuthenticatedStep
                      /\ n \in DOMAIN catalog_endpoints'
                      /\ Resolve(n)'.url = catalog_endpoints'[n])]_vars

C10_Witness ==
    /\ call.op = "resolve" /\ call.arg = "network"
    /\ call.returned = Some(<<"https://env.network.url">>)
    /\ "CONOHA_ENDPOINT_NETWORK" \notin DOMAIN environ
    /\ caller_endpoints # None
    /\ Get(caller_endpoints) # user_endpoints
    /\ catalog_endpoints # EmptyDict

(***************************************************************************)
(* Properties of authenticate() (conoha/client.py)                         *)
(***************************************************************************)
\* the instant, in seconds since the epoch, an expiry string of the identity
\* service denotes
ReportedExpiry(s) ==
    IF s.tz = "+09:00" THEN s.wall - 9 * 3600 ELSE s.wall

\* C11: after a successful authenticate() the stored expiry is the expiry
\* the server reported minus 300 seconds, and when the response carries no
\* expiry it is the time of the authentication plus 86400 minus 300 seconds
C11_StoredExpiry ==
    [][AuthenticatedStep
          => LET reported == Get(call'.id_resp).expires_at
             IN  IF reported # None
                 THEN token_expires_at' = Some(ReportedExpiry(Get(reported)) - 300)
                 ELSE token_expires_at' = Some(now + 86400 - 300)]_vars

C11_Witness ==
    /\ Authenticated /\ Get(call.id_resp).expires_at = None
    /\ now = 86100
    /\ token_expires_at = Some(86100 + 86400 - 300)

\* the most recent call was authenticate() itself, from the caller or from
\* the constructor
AuthenticateReturned == call.op \in {"authenticate", "init"}

\* C12: authenticate() succeeds only when the identity service answers 201;
\* on every other status it raises AuthenticationError
C12_SucceedsOnlyOn201 ==
    AuthenticateReturned
        => LET status == Get(call.id_resp).status
           IN  /\ (call.raised = "" => status = 201)
               /\ (status # 201 => call.raised = "AuthenticationError")

C12_Witness ==
    /\ call.op = "authenticate" /\ Get(call.id_resp).status = 200
    /\ call.raised = "AuthenticationError"

\* the constructor has assigned the fields and nothing has been called yet
FieldsAssigned == call.op = "none"

\* no token was handed to the constructor, and a user identifier and a
\* password were
NoTokenButCredentials ==
    /\ (token = None \/ Get(token) = "")
    /\ PasswordCredentialsConfigured

\* C13: a constructor given a user identifier and a password and no token
\* performs one authentication before it returns, and a failure of that
\* authentication leaves the constructor as AuthenticationError; a
\* constructor given a token returns without any HTTP call
C13_ConstructorAuthenticates ==
    [][/\ (FieldsAssigned
              => (phase = "constructing" <=> NoTokenButCredentials))
       /\ (FieldsAssigned /\ phase = "constructing" /\ call'.seq # call.seq
              => /\ call'.op = "init"
                 /\ call'.id_posts = 1
                 /\ IF Get(call'.id_resp).status = 201
                    THEN call'.raised = "" /\ phase' = "ready"
                    ELSE call'.raised = "AuthenticationError" /\ phase' = "failed")
       /\ (call'.seq # call.seq /\ call'.op = "init"
              => FieldsAssigned /\ NoTokenButCredentials)
       /\ (FieldsAssigned /\ Truthy(token)
              => phase = "ready" /\ call.id_posts = 0)
       /\ (phase' = "failed" => call'.op = "init")]_vars

C13_Witness ==
    /\ phase = "failed" /\ call.op = "init" /\ call.id_posts = 1
    /\ call.raised = "AuthenticationError"
    /\ token = None /\ PasswordCredentialsConfigured

\* the catalog entries that record a URL for the logical service name n:
\* their type is the known type of n and one of their endpoints is public
RecordingEntries(catalog, n) ==
    {i \in DOMAIN catalog :
        /\ catalog[i].type \in DOMAIN service_map
        /\ service_map[catalog[i].type] = n
        /\ \E j \in DOMAIN catalog[i].endpoints :
               catalog[i].endpoints[j].interface = "public"}

\* the URL of the first endpoint of the entry that is tagged "public"
FirstPublicUrl(entry) ==
    LET j == CHOOSE k \in DOMAIN entry.endpoints :
                /\ entry.endpoints[k].interface = "public"
                /\ \A m \in 1..(k - 1) : entry.endpoints[m].interface # "public"
    IN  entry.endpoints[j].url

MaxOf(S) == CHOOSE x \in S : \A y \in S : x >= y

\* C15: a successful authenticate() sets the token from the response header,
\* sets the expiry, the tenant id and the user id from the response body,
\* records the catalog-derived endpoint entries of the body, and returns
\* the new token
C15_AuthenticateSetsFields ==
    [][AuthenticatedStep
          => LET resp == Get(call'.id_resp)
             IN  /\ token' = resp.subject_token
                 /\ token_expires_at' # None
                 /\ (resp.expires_at # None
                        => Get(token_expires_at')
                              = ReportedExpiry(Get(resp.expires_at)) - 300)
                 /\ tenant_id' = IF resp.project # None THEN resp.project
                                 ELSE tenant_id
                 /\ user_id' = IF resp.user # None THEN resp.user ELSE user_id
                 /\ \A n \in ServiceNames :
                        RecordingEntries(resp.catalog, n) # {}
                            => /\ n \in DOMAIN catalog_endpoints'
                               /\ catalog_endpoints'[n] =
                                     FirstPublicUrl(resp.catalog[
                                         MaxOf(RecordingEntries(resp.catalog, n))])
                 /\ (call'.op = "authenticate"
                        => call'.raised = "" /\ call'.returned = token')]_vars

C15_Witness ==
    /\ Authenticated /\ call.op = "authenticate"
    /\ call.returned = Some("T1") /\ token = Some("T1")
    /\ tenant_id = Some("p1") /\ user_id = Some("u1")
    /\ "compute" \in DOMAIN catalog_endpoints
    /\ catalog_endpoints["compute"] = <<"https://cat.compute.a">>

\* the step posted an authentication request to the identity service
IdentityPostStep == call'.seq # call.seq /\ call'.id_body # None

\* an optional string that is neither None nor empty
Present(o) == o # None /\ Get(o) # ""

\* C16: the authentication request identifies the user by id whenever a
\* user id is present, even if a username is present too, and by name
\* otherwise; it is scoped to a project by id when a tenant id is present,
\* else by name when a tenant name is present, else it carries no scope
C16_RequestBody ==
    [][IdentityPostStep
          => LET auth == Get(call'.id_body).auth
                 user == auth.identity.password.user
             IN  /\ IF Present(user_id)
                    THEN DOMAIN user = {"id", "password"} /\ user.id = user_id
                    ELSE DOMAIN user = {"name", "password"}
                         /\ user.name = username
                 /\ user.password = password
                 /\ IF Present(tenant_id)
                    THEN /\ "scope" \in DOMAIN auth
                         /\ auth.scope = [project |-> [id |-> tenant_id]]
                    ELSE IF Present(tenant_name)
                    THEN /\ "scope" \in DOMAIN auth
                         /\ auth.scope = [project |-> [name |-> tenant_name]]
                    ELSE "scope" \notin DOMAIN auth]_vars

C16_Witness ==
    /\ call.op = "authenticate" /\ call.id_body # None
    /\ user_id = Some("uid0") /\ username = Some("api_user")
    /\ tenant_id = None /\ tenant_name = Some("tenant0")
    /\ Get(call.id_body).auth.identity.password.user
          = [id |-> Some("uid0"), password |-> password]
    /\ Get(call.id_body).auth.scope = [project |-> [name |-> Some("tenant0")]]

\* C17: catalog parsing records, for each catalog entry whose service type
\* is known, the URL of the first endpoint tagged "public" under the logical
\* service name; an entry of unknown type and a known entry with no public
\* endpoint record nothing
C17_CatalogParsing ==
    [][AuthenticatedStep
          => LET catalog == Get(call'.id_resp).catalog
             IN  /\ \A n \in DOMAIN catalog_endpoints' :
                        n \in DOMAIN catalog_endpoints
                        \/ RecordingEntries(catalog, n) # {}
                 /\ \A n \in ServiceNames :
                        IF RecordingEntries(catalog, n) # {}
                        THEN /\ n \in DOMAIN catalog_endpoints'
                             /\ catalog_endpoints'[n] =
                                   FirstPublicUrl(catalog[
                                       MaxOf(RecordingEntries(catalog, n))])
                        ELSE /\ n \in DOMAIN catalog_endpoints'
                                   <=> n \in DOMAIN catalog_endpoints
                             /\ n \in DOMAIN catalog_endpoints
                                   => catalog_endpoints'[n] = catalog_endpoints[n]]_vars

C17_Witness ==
    /\ Authenticated
    /\ \E i \in DOMAIN Get(call.id_resp).catalog :
          Get(call.id_resp).catalog[i].type = "baremetal"
    /\ \E i \in DOMAIN Get(call.id_resp).catalog :
          Get(call.id_resp).catalog[i].type = "volumev3"
    /\ DOMAIN catalog_endpoints = {"compute"}
    /\ catalog_endpoints["compute"] = <<"https://cat.compute.b">>

\* C20, as stated: no operation after construction modifies the username,
\* the user id, the password, the tenant id or the tenant name
C20_CredentialsNeverModified ==
    [][phase = "ready"
          => UNCHANGED <<username, user_id, password, tenant_id,
                         tenant_name>>]_vars

\* C20, amended: no operation after construction modifies the username, the
\* password or the tenant name; the user id and the tenant id change only in
\* a successful authenticate(), which replaces each by the id the identity
\* response carries for it
C20_CredentialsExceptIds ==
    [][phase = "ready"
          => /\ UNCHANGED <<username, password, tenant_name>>
             /\ (user_id' # user_id
                    => /\ AuthenticatedStep
                       /\ user_id' = Get(call'.id_resp).user)
             /\ (tenant_id' # tenant_id
                    => /\ AuthenticatedStep
                       /\ tenant_id' = Get(call'.id_resp).project)]_vars

\* the last call, an authenticate() of the caller, named the user in its
\* request and left the client with the user id of the response
C20_Witness ==
    /\ call.op = "authenticate" /\ Authenticated
    /\ "name" \in DOMAIN Get(call.id_body).auth.identity.password.user
    /\ user_id = Some("u1") /\ tenant_id = Some("p1")
    /\ username = Some("api_user") /\ password = Some("api_password")

(***************************************************************************)
(* Properties of the service properties (conoha/client.py)                 *)
(***************************************************************************)
\* the step is a read of a service property by the caller
ServiceAccessStep == call'.seq # call.seq /\ call'.op = "service"

\* the service objects the client holds
HeldObjects == {services[p] : p \in {q \in DOMAIN services : services[q] # None}}

\* C18: a resource module is constructed at the first read of its property
\* and every later read returns that same instance, so that a client never
\* holds more than one instance per service
C18_OneInstancePerService ==
    [][/\ \A p \in DOMAIN services :
            services[p] # None => services'[p] = services[p]
       /\ (ServiceAccessStep
              => LET p == call'.arg
                 IN  /\ call'.returned = services'[p]
                     /\ services'[p] # None
                     /\ (services[p] = None => services'[p] \notin HeldObjects)
                     /\ \A q \in DOMAIN services \ {p} :
                            services'[q] = services[q])
       /\ (~ServiceAccessStep => services' = services)
       /\ objects' = Cardinality({p \in DOMAIN services : services'[p] # None})]_vars

C18_Witness ==
    /\ call.op = "service" /\ call.arg = "compute"
    /\ objects = 2 /\ services["volume"] # None
    /\ call.returned = services["compute"]
    /\ Get(services["compute"]).oid = 1

(***************************************************************************)
(* Properties of the resource methods (conoha/compute.py, conoha/volume.py)*)
(***************************************************************************)
\* a resource method has ended after the server answered
MethodAnswered == call.op = "method" /\ pc = "idle" /\ call.response # None

\* the top-level key of each endpoint's response
KnownKey(m) ==
    IF m = "list_servers" THEN "servers"
    ELSE IF m = "get_server" THEN "server"
    ELSE "volume"

\* C19: a resource method whose response is a success carrying the JSON
\* object of its endpoint returns exactly the value under the endpoint's
\* top-level key
C19_ReturnsTopLevelValue ==
    MethodAnswered
        => LET response == Get(call.response)
               holders == {i \in DOMAIN response.body :
                              response.body[i][1] = KnownKey(call.arg)}
           IN  (response.status < 400 /\ holders # {})
                  => /\ call.raised = ""
                     /\ call.returned = Some(response.body[MaxOf(holders)][2])

C19_Witness ==
    /\ MethodAnswered /\ call.arg = "get_volume" /\ call.raised = ""
    /\ Len(Get(call.response).body) = 2
    /\ call.returned = Some([id |-> "v1", size |-> 100])

(***************************************************************************)
(* Properties of the request executor, continued                           *)
(***************************************************************************)
\* C14: a response whose status is below 400 never raises, and the executor
\* returns that response as it was received
C14_SuccessReturnsResponse ==
    (RequestAnswered /\ LastStatus < 400)
        => /\ call.raised = ""
           /\ call.status_code = None
           /\ call.returned = Some(LastStatus)
           /\ Len(call.statuses) = 1

C14_Witness ==
    /\ RequestAnswered /\ call.statuses = <<399>>
    /\ call.raised = "" /\ call.returned = Some(399)

(***************************************************************************)
(* Properties of the token state (conoha/client.py)                        *)
(***************************************************************************)
\* the step is a call that completed an identity exchange
IdentityAnsweredStep == call'.seq # call.seq /\ call'.id_resp # None

\* C21: token and expiry are replaced together: an authenticate() that has
\* returned or raised leaves either both as they were or both derived from
\* the identity response of that call
C21_TokenAndExpiryTogether ==
    [][IdentityAnsweredStep
          => LET resp == Get(call'.id_resp)
             IN  \/ token' = token /\ token_expires_at' = token_expires_at
                 \/ /\ "expires_at" \in DOMAIN resp
                    /\ token' = resp.subject_token
                    /\ token_expires_at' =
                          IF resp.expires_at # None
                          THEN Some(ReportedExpiry(Get(resp.expires_at)) - 300)
                          ELSE Some(now + 86400 - 300)]_vars

\* C22: whenever the token property returns normally, the returned value is
\* a present, non-empty token that the stored-expiry check does not find
\* expired, also when the call re-authenticated
C22_ReturnedTokenValid ==
    [][(TokenCallStep /\ call'.raised = "")
          => /\ Present(call'.returned)
             /\ (token_expires_at' # None => now < Get(token_expires_at'))]_vars

(***************************************************************************)
(* Properties of the error messages (conoha/base.py)                       *)
(***************************************************************************)
\* C23: for a response with status >= 400 the error message is the JSON
\* body's error.message if present, else the JSON body's top-level message,
\* else the raw response text if non-empty, else "HTTP <status>"
C23_MessageOrder ==
    (MethodAnswered /\ Get(call.response).status >= 400)
        => LET response == Get(call.response)
               members  == response.body
               errors   == {i \in DOMAIN members :
                               /\ members[i][1] = "error"
                               /\ "message" \in DOMAIN members[i][2]}
               messages == {i \in DOMAIN members : members[i][1] = "message"}
           IN  call.message =
                  Some(IF response.is_json /\ errors # {}
                          THEN members[MaxOf(errors)][2].message
                       ELSE IF response.is_json /\ messages # {}
                          THEN members[MaxOf(messages)][2]
                       ELSE IF response.text # <<>>
                          THEN response.text
                       ELSE <<"HTTP ", ToString(response.status)>>)

(***************************************************************************)
(* Properties of the request headers (conoha/base.py)                      *)
(***************************************************************************)
\* the step sent the headers of a resource request
RequestSentStep ==
    call'.seq # call.seq /\ call'.op = "request" /\ call'.headers # None

\* the values the caller supplied for a header name in a call
CallerValues(c, name) ==
    {Get(d)[name] : d \in {x \in {c.extra_headers, c.kw_headers} :
                              x # None /\ name \in DOMAIN Get(x)}}

\* C24: a resource request carries Accept: application/json, X-Auth-Token
\* equal to the token the token property returned for it, and the headers
\* the caller supplied; for a name the caller supplied, the value sent is
\* the caller's
C24_Headers ==
    [][RequestSentStep
          => LET sent == Get(call'.headers)
             IN  /\ \A name \in {"Accept", "X-Auth-Token"} : name \in DOMAIN sent
                 /\ \A name \in DOMAIN sent :
                        IF CallerValues(call', name) # {}
                        THEN sent[name] \in CallerValues(call', name)
                        ELSE \/ name = "Accept"
                                /\ sent[name] = Some("application/json")
                             \/ name = "X-Auth-Token" /\ sent[name] = token'
                 /\ \A name \in {"Content-Type", "X-Trace", "X-Custom"} :
                        CallerValues(call', name) # {} => name \in DOMAIN sent]_vars

C24_Witness ==
    /\ call.op = "request" /\ call.headers # None /\ Len(call.statuses) = 1
    /\ call.id_posts = 1
    /\ Get(call.headers) =
          [h \in {"Accept", "X-Auth-Token", "Content-Type"} |->
              CASE h = "Accept"       -> Some("application/xml")
                [] h = "X-Auth-Token" -> token
                [] h = "Content-Type" -> Some("application/json")]

(***************************************************************************)
(* Properties of concurrent reads of the token (conoha/client.py)          *)
(***************************************************************************)
\* thread t posts to the identity service in the step
PostStep(t) == threads[t].pc = "posting" /\ threads'[t].pc # "posting"

\* C25: the token state is read and replaced with no lock: a read that no
\* other read overlaps posts to the identity service only when the token is
\* absent or expired, while reads that interleave each post for the same
\* expiry (the duplicate exchange is the state C25_Witness)
C25_SerializedReadsAuthenticateOnce ==
    [][\A t \in Threads :
          /\ (PostStep(t) /\ threads[t].alone => TokenAbsentOrExpired)
          /\ (threads[t].pc = "idle" /\ threads'[t].pc = "returning"
                 => ~TokenAbsentOrExpired /\ UNCHANGED <<token, token_expires_at>>)
          /\ (threads[t].pc = "idle" /\ threads'[t].pc = "posting"
                 => TokenAbsentOrExpired)]_vars

\* both threads hold an answer of the identity service for the same expired
\* token, which neither has replaced yet
C25_Witness ==
    /\ \A t \in Threads : threads[t].pc = "assign_token"
    /\ token # None /\ token_expires_at # None
    /\ now >= Get(token_expires_at)

(***************************************************************************)
(* Properties of a rejected authentication (conoha/client.py)              *)
(***************************************************************************)
\* the step completed an identity exchange answered with a status other
\* than 201
RejectedStep ==
    IdentityAnsweredStep /\ Get(call'.id_resp).status # IdentitySuccess

\* C26: an identity exchange answered with any status other than 201 raises
\* AuthenticationError and leaves the stored token, expiry, tenant id, user
\* id and catalog-derived endpoints exactly as they were
C26_RejectionChangesNothing ==
    [][RejectedStep
          => /\ call'.raised = "AuthenticationError"
             /\ UNCHANGED <<token, token_expires_at, tenant_id, user_id,
                            catalog_endpoints>>]_vars

C26_Witness ==
    /\ call.op = "authenticate" /\ call.id_resp # None
    /\ Get(call.id_resp).status # IdentitySuccess
    /\ call.raised = "AuthenticationError"
    /\ token = Some("T1") /\ token_expires_at # None
    /\ catalog_endpoints # EmptyDict

(***************************************************************************)
(* Properties of a token with no stored expiry (conoha/client.py)          *)
(***************************************************************************)
\* the step read the token property, directly or for a resource request
TokenReadStep ==
    call'.seq # call.seq /\ call'.op \in {"token", "request"}

\* C27: a token with no stored expiry is never treated as expired: at every
\* time, with or without password credentials, the token property returns
\* it with no identity exchange and leaves the token and the absent expiry
\* as they are
C27_NoExpiryNeverExpires ==
    [][(TokenReadStep /\ Present(token) /\ token_expires_at = None)
          => /\ call'.id_posts = 0
             /\ call'.raised # "AuthenticationError"
             /\ (call'.op = "token"
                    => call'.raised = "" /\ call'.returned = token)
             /\ UNCHANGED <<token, token_expires_at>>]_vars

C27_Witness ==
    /\ call.op = "token" /\ call.id_posts = 0 /\ call.raised = ""
    /\ Present(token) /\ call.returned = token
    /\ token_expires_at = None
    /\ PasswordCredentialsConfigured
    /\ now >= AssumedValidity

(***************************************************************************)
(* Properties of the modules' base URLs (conoha/compute.py, volume.py)     *)
(***************************************************************************)
\* b is a prefix of u
Prefix(b, u) == Len(b) <= Len(u) /\ SubSeq(u, 1, Len(b)) = b

\* the step began a resource method
MethodBeginStep == call'.seq # call.seq /\ call'.op = "method"

\* C28: a resource module resolves its base URL once, when it is created at
\* the first read of its property, and keeps it: an authentication that
\* changes what the resolver returns for the service does not change the
\* URLs the existing module requests
C28_BaseUrlResolvedOnce ==
    [][/\ \A p \in DOMAIN services :
            services[p] # None
                => /\ services'[p] # None
                   /\ Get(services'[p]).base_url = Get(services[p]).base_url
       /\ (ServiceAccessStep /\ services[call'.arg] = None
              => Get(services'[call'.arg]).base_url
                     = Resolve(EndpointNameOf[call'.arg]).url)
       /\ (MethodBeginStep
              => Prefix(Get(services[PropertyOf[call'.arg]]).base_url,
                        call'.url))]_vars

C28_Witness ==
    /\ call.op = "method" /\ call.arg = "list_servers"
    /\ services["compute"] # None
    /\ Resolve("compute").url # Get(services["compute"]).base_url
    /\ Prefix(Get(services["compute"]).base_url, call.url)
    /\ ~Prefix(Resolve("compute").url, call.url)

(***************************************************************************)
(* Properties of the identity URL (conoha/client.py)                       *)
(***************************************************************************)
\* the path authenticate() appends to the identity endpoint
TokensPath == <<"/v3/auth/tokens">>

\* C29: authenticate() posts to the identity endpoint as the resolver gives
\* it at the time of the call: once the catalog has recorded an identity
\* endpoint and neither the user nor the environment overrides it, every
\* authentication is posted to the catalog's URL and not to the region's
\* default
C29_IdentityUrlResolvedAtCall ==
    [][IdentityPostStep
          => /\ call'.id_url = Some(Resolve("identity").url \o TokensPath)
             /\ (("identity" \in DOMAIN catalog_endpoints
                  /\ "identity" \notin DOMAIN user_endpoints
                  /\ "identity" \notin DOMAIN env_endpoints)
                    => call'.id_url
                         = Some(catalog_endpoints["identity"] \o TokensPath))]_vars

C29_Witness ==
    /\ call.op = "authenticate" /\ call.id_url # None
    /\ Get(call.id_url) = <<"https://cat.identity">> \o TokensPath
    /\ Get(call.id_url) # Format(BASE_URLS["identity"], region) \o TokensPath

(***************************************************************************)
(* Properties of the order of token and request (conoha/base.py)           *)
(***************************************************************************)
\* the step began a resource request
RequestBeginStep == call'.seq # call.seq /\ call'.op = "request"

\* the token property raises in the step: the token is absent or expired and
\* either no password credentials are configured or the identity service
\* rejects the authentication
TokenAcquisitionFails ==
    /\ TokenAbsentOrExpired
    /\ \/ ~PasswordCredentialsConfigured
       \/ (call'.id_resp # None
              /\ Get(call'.id_resp).status # IdentitySuccess)

\* C30: a resource HTTP request is sent only once the token property has
\* returned a token for the call: when the token property raises
\* AuthenticationError, the call ends with that error and no resource
\* request is sent for it
C30_NoRequestWithoutToken ==
    [][/\ ((RequestBeginStep /\ TokenAcquisitionFails)
              => /\ call'.raised = "AuthenticationError"
                 /\ pc' = "idle"
                 /\ call'.statuses = <<>>
                 /\ call'.headers = None)
       /\ ((RequestBeginStep /\ pc' = "inflight")
              => /\ call'.raised = ""
                 /\ call'.headers # None
                 /\ Get(call'.headers)["X-Auth-Token"] = token')
       /\ (Len(call'.statuses) > Len(call.statuses)
              => /\ call'.seq = call.seq
                 /\ call.raised = ""
                 /\ pc = "inflight")]_vars

C30_Witness ==
    /\ call.op = "request" /\ call.raised = "AuthenticationError"
    /\ call.statuses = <<>> /\ pc = "idle"
    /\ call.id_posts = 1
    /\ token # None /\ token_expires_at # None
    /\ now >= Get(token_expires_at)
====
